---- MODULE Spec2Model ----
(***************************************************************************)
(* Model of src/renderer.js: the saved-URL library kept in localStorage    *)
(* (loadSavedUrls, markUrlAsUsed, persistSavedUrls, renderSavedUrls) and   *)
(* the capture controller (the preview, snapshot and record click          *)
(* handlers, the recording countdown and the callbacks of the python       *)
(* capture processes).                                                     *)
(*                                                                         *)
(* Strings are sequences of naturals; WS stands for a whitespace character *)
(* and every other number for one non-blank character.  The click handlers *)
(* are the controller's operations: they are callable in every state, and  *)
(* the `disabled` attribute the code writes on the buttons is state.       *)
(***************************************************************************)
EXTENDS Integers, Sequences, FiniteSets, TLC

\* ---------------------------------------------------------------- constants
MAX_SAVED_URLS == 20
DEFAULT_CLIP_DURATION == 5
MS_PER_SECOND == 1000
WS == 0
NO_TIMESTAMP == 0
NO_TIMER == 0

\* ------------------------------------------------------------------- bounds
ClockStep == 500
MaxTicks == 1
MaxOps == 2
MaxEvents == 2
ExtraUrls == 2
MaxSteps == 4

StartClock == 2 * MS_PER_SECOND

VARIABLES
    now,              \* Date.now()
    stored,           \* localStorage[STORAGE_KEY]
    displayed,        \* the rows of tableBody, as the entries rendered
    urlInput,         \* urlInput.value
    imageSrc,         \* imageCanvas.src
    status,           \* statusBox: text and class
    isRecording,
    buttonsDisabled,  \* recordButton, clipDurationSelect, previewButton, snapshotButton .disabled
    recordingTimerId,
    intervals,        \* the running setInterval timers: id and the endAt of their renderTick
    shells,           \* the PythonShell processes launched, with their handlers' closures
    nOps,             \* click handlers run so far
    nEvents,          \* message and error callbacks run so far
    lastOp            \* the last click handler run and how it ended

vars == <<now, stored, displayed, urlInput, imageSrc, status, isRecording,
          buttonsDisabled, recordingTimerId, intervals, shells, nOps, nEvents, lastOp>>

\* ------------------------------------------------------------------ strings
RECURSIVE TrimLeft(_)
TrimLeft(s) ==
    IF s # <<>> /\ Head(s) = WS THEN TrimLeft(Tail(s)) ELSE s

RECURSIVE TrimRight(_)
TrimRight(s) ==
    IF s # <<>> /\ s[Len(s)] = WS THEN TrimRight(SubSeq(s, 1, Len(s) - 1)) ELSE s

\* mutant: the url is used as typed
TrimNothing(s) == s

\* String.prototype.trim
Trim(s) == TrimRight(TrimLeft(s))

Url(k) == <<k>>

\* ------------------------------------------------------------------- status
Status(text, type, n) == [text |-> text, type |-> type, n |-> n]

\* ------------------------------------------------------------ saved URLs
Entry(url, t) == [url |-> url, lastUsedAt |-> t]

StoredItem(url, t, pinned) ==
    [strUrl |-> TRUE, url |-> url, lastUsedAt |-> t, pinned |-> pinned]

StoredArray(items) == [kind |-> "array", items |-> items]

\* Number(item.lastUsedAt) || Date.now()
TimestampOf(item, t) ==
    IF item.lastUsedAt = NO_TIMESTAMP THEN t ELSE item.lastUsedAt

LoadedEntry(item, t) == Entry(Trim(item.url), TimestampOf(item, t))

loadSavedUrls(raw, t) ==
    IF raw.kind # "array"
    THEN <<>>
    ELSE LET kept   == SelectSeq(raw.items, LAMBDA item : item.strUrl)
             mapped == [i \in 1..Len(kept) |-> LoadedEntry(kept[i], t)]
         IN  SelectSeq(mapped, LAMBDA item : Len(item.url) > 0)

\* the catch branch of loadSavedUrls: JSON.parse threw
LoadFails(raw) == raw.kind = "unparseable"

\* mutant: setItem is never reached, localStorage keeps what it held
persistSavedUrlsSkipped(savedUrls) == stored

\* localStorage.setItem(STORAGE_KEY, JSON.stringify(savedUrls))
persistSavedUrls(savedUrls) ==
    StoredArray([i \in 1..Len(savedUrls) |->
                    StoredItem(savedUrls[i].url, savedUrls[i].lastUsedAt, FALSE)])

\* b.lastUsedAt - a.lastUsedAt <= 0: a stays before b
ComesBefore(a, b) == a.lastUsedAt >= b.lastUsedAt

RECURSIVE InsertSorted(_, _)
InsertSorted(e, s) ==
    IF s = <<>> THEN <<e>>
    ELSE IF ComesBefore(Head(s), e)
         THEN <<Head(s)>> \o InsertSorted(e, Tail(s))
         ELSE <<e>> \o s

\* Array.prototype.sort is stable: equal elements keep their order
RECURSIVE SortByLastUsed(_)
SortByLastUsed(s) ==
    IF s = <<>> THEN <<>>
    ELSE InsertSorted(s[Len(s)], SortByLastUsed(SubSeq(s, 1, Len(s) - 1)))

\* mutant: slice never cuts
SliceToWhole(s, n) == s

\* savedUrls.slice(0, n)
SliceTo(s, n) == IF Len(s) <= n THEN s ELSE SubSeq(s, 1, n)

IndicesOf(savedUrls, url) == {i \in 1..Len(savedUrls) : savedUrls[i].url = url}

\* the first index whose entry has the url, 0 for findIndex's -1
FindIndex(savedUrls, url) ==
    LET found == IndicesOf(savedUrls, url)
    IN  IF found = {} THEN 0
        ELSE CHOOSE i \in found : \A j \in found : i <= j

\* mutant: the url is pushed without looking for it
TouchEntryPushes(savedUrls, url, t) == Append(savedUrls, Entry(url, t))

\* findIndex, then the bump of lastUsedAt or the push
TouchEntry(savedUrls, url, t) ==
    LET existingIndex == FindIndex(savedUrls, url)
    IN  IF existingIndex > 0
        THEN [savedUrls EXCEPT ![existingIndex].lastUsedAt = t]
        ELSE Append(savedUrls, Entry(url, t))

\* the list markUrlAsUsed persists and renders for a non-blank url
NextSavedUrls(url, raw, t) ==
    SliceTo(SortByLastUsed(TouchEntry(loadSavedUrls(raw, t), Trim(url), t)),
            MAX_SAVED_URLS)

\* markUrlAsUsed: returns early on a blank url, else persists and renders
MarkUrlAsUsed(url) ==
    IF Trim(url) = <<>>
    THEN UNCHANGED <<stored, displayed>>
    ELSE LET nextSavedUrls == NextSavedUrls(url, stored, now)
         IN  /\ stored' = persistSavedUrls(nextSavedUrls)
             /\ displayed' = nextSavedUrls

\* ------------------------------------------------------- statuses (setStatus)
StatusNone == Status("", "info", 0)
StatusEnterUrl == Status("Please enter a stream URL first.", "error", 0)
StatusCacheInvalid == Status("Saved URL cache is invalid. Starting fresh.", "error", 0)
StatusLoadedSaved == Status("Loaded saved URL and updated preview.", "success", 0)
StatusPreviewUpdated == Status("Preview updated.", "success", 0)
StatusCapturing == Status("Capturing snapshot...", "info", 0)
StatusSnapshotFailed == Status("Snapshot failed. Check the URL and try again.", "error", 0)
StatusSnapshotSaved == Status("Snapshot saved successfully.", "success", 0)
StatusSnapshotError == Status("Snapshot error", "error", 0)
StatusAlreadyRecording == Status("A recording is already in progress.", "error", 0)
StatusRecordingComplete == Status("Recording complete. Video saved successfully.", "success", 0)
StatusRecordingError == Status("Recording error", "error", 0)
StatusMessage == Status("message", "info", 0)
StatusDependency(actionLabel) == Status(actionLabel, "error", 0)
StatusExitCode(code) == Status("Recording stopped with exit code", "error", code)
StatusCountdown(remainingSeconds) ==
    Status("Recording in progress...", "recording", remainingSeconds)

\* ---------------------------------------------------------------- countdown
Max(a, b) == IF a >= b THEN a ELSE b

\* Math.ceil(a / b) for b > 0
CeilDiv(a, b) == -((-a) \div b)

\* renderTick: Math.max(0, Math.ceil((endAt - Date.now()) / 1000))
RemainingSeconds(endAt, t) == Max(0, CeilDiv(endAt - t, MS_PER_SECOND))

\* startRecordingCountdown(durationSeconds): clears the armed interval, renders
\* one tick and arms a new interval whose handle is id
StartRecordingCountdown(durationSeconds, id) ==
    /\ intervals' = {iv \in intervals : iv.id # recordingTimerId}
                        \cup {[id |-> id, endAt |-> now + durationSeconds * MS_PER_SECOND]}
    /\ status' = StatusCountdown(
                    RemainingSeconds(now + durationSeconds * MS_PER_SECOND, now))
    /\ recordingTimerId' = id

\* mutant: the handle is dropped and clearInterval is not called
StopRecordingCountdownLeaks ==
    /\ intervals' = intervals
    /\ recordingTimerId' = NO_TIMER

StopRecordingCountdown ==
    /\ intervals' = {iv \in intervals : iv.id # recordingTimerId}
    /\ recordingTimerId' = NO_TIMER

SetRecordingUiState(active) ==
    /\ isRecording' = active
    /\ buttonsDisabled' = active

\* getDependencyHelpMessage(...) # null
IsDependencyError(error) == error.noModuleNamed /\ error.cv2

\* Number(clipDurationSelect.value) || 5
ClipDuration(value) ==
    IF value.isNaN \/ value.n = 0 THEN DEFAULT_CLIP_DURATION ELSE value.n

\* ------------------------------------------------------------------- shells
StillShell ==
    [kind |-> "still", duration |-> 0, recordingFinished |-> FALSE,
     closed |-> FALSE, outcomes |-> <<>>]

RecordShell(clipDuration) ==
    [kind |-> "record", duration |-> clipDuration, recordingFinished |-> FALSE,
     closed |-> FALSE, outcomes |-> <<>>]

\* setStatus + notifyUser reporting the end of shell i's capture
Report(i, outcome) == [shells EXCEPT ![i].outcomes = Append(@, outcome)]

\* ------------------------------------------------------------ click handlers
\* clicks, message and error callbacks and clock steps so far
Steps == nOps + nEvents + (now - StartClock) \div ClockStep

NoValue == [isNaN |-> TRUE, n |-> 0]

OpRecord(name, outcome, url, value) ==
    LET savedUrls == loadSavedUrls(stored, now)
    IN  [name |-> name, outcome |-> outcome, url |-> Trim(url), value |-> value,
         wasSaved |-> FindIndex(savedUrls, Trim(url)) > 0,
         sizeBefore |-> Len(savedUrls)]

NoOp == [name |-> "none", outcome |-> "none", url |-> <<>>, value |-> NoValue,
         wasSaved |-> FALSE, sizeBefore |-> 0]

\* raw is what urlInput holds when the button is clicked
PreviewClick(raw) ==
    /\ nOps < MaxOps /\ Steps < MaxSteps
    /\ nOps' = nOps + 1
    /\ urlInput' = raw
    /\ IF Trim(raw) = <<>>
       THEN /\ status' = StatusEnterUrl
            /\ lastOp' = OpRecord("preview", "InvalidUrl", raw, NoValue)
            /\ UNCHANGED <<stored, displayed, imageSrc>>
       ELSE /\ MarkUrlAsUsed(Trim(raw))
            /\ imageSrc' = Trim(raw)
            /\ status' = StatusPreviewUpdated
            /\ lastOp' = OpRecord("preview", "accepted", raw, NoValue)
    /\ UNCHANGED <<now, isRecording, buttonsDisabled, recordingTimerId,
                   intervals, shells, nEvents>>

SavedRowClick(i) ==
    /\ nOps < MaxOps /\ Steps < MaxSteps
    /\ i \in 1..Len(displayed)
    /\ nOps' = nOps + 1
    /\ urlInput' = displayed[i].url
    /\ imageSrc' = displayed[i].url
    /\ MarkUrlAsUsed(displayed[i].url)
    /\ status' = IF LoadFails(stored) THEN StatusCacheInvalid ELSE StatusLoadedSaved
    /\ lastOp' = OpRecord("row", "accepted", displayed[i].url, NoValue)
    /\ UNCHANGED <<now, isRecording, buttonsDisabled, recordingTimerId, intervals,
                   shells, nEvents>>

SnapshotClick(raw) ==
    /\ nOps < MaxOps /\ Steps < MaxSteps
    /\ nOps' = nOps + 1
    /\ urlInput' = raw
    /\ IF Trim(raw) = <<>>
       THEN /\ status' = StatusEnterUrl
            /\ lastOp' = OpRecord("snapshot", "InvalidUrl", raw, NoValue)
            /\ UNCHANGED <<stored, displayed, shells>>
       ELSE /\ MarkUrlAsUsed(Trim(raw))
            /\ status' = StatusCapturing
            /\ shells' = Append(shells, StillShell)
            /\ lastOp' = OpRecord("snapshot", "accepted", raw, NoValue)
    /\ UNCHANGED <<now, imageSrc, isRecording, buttonsDisabled,
                   recordingTimerId, intervals, nEvents>>

\* mutant: the record handler does not look at isRecording
RecordingActiveIgnored == FALSE

\* if (isRecording) at the head of the record handler
RecordingActive == isRecording

\* value is what clipDurationSelect holds
RecordClick(raw, value) ==
    /\ nOps < MaxOps /\ Steps < MaxSteps
    /\ nOps' = nOps + 1
    /\ urlInput' = raw
    /\ IF RecordingActive
       THEN /\ status' = StatusAlreadyRecording
            /\ lastOp' = OpRecord("record", "AlreadyRecording", raw, value)
            /\ UNCHANGED <<stored, displayed, isRecording, buttonsDisabled,
                           recordingTimerId, intervals, shells>>
       ELSE IF Trim(raw) = <<>>
       THEN /\ status' = StatusEnterUrl
            /\ lastOp' = OpRecord("record", "InvalidUrl", raw, value)
            /\ UNCHANGED <<stored, displayed, isRecording, buttonsDisabled,
                           recordingTimerId, intervals, shells>>
       ELSE /\ MarkUrlAsUsed(Trim(raw))
            /\ SetRecordingUiState(TRUE)
            /\ StartRecordingCountdown(ClipDuration(value), Len(shells) + 1)
            /\ shells' = Append(shells, RecordShell(ClipDuration(value)))
            /\ lastOp' = OpRecord("record", "accepted", raw, value)
    /\ UNCHANGED <<now, imageSrc, nEvents>>

\* ------------------------------------------------- capture process callbacks
Open(i, kind) ==
    /\ i \in 1..Len(shells)
    /\ shells[i].kind = kind
    /\ ~shells[i].closed

\* mutant: the still handler looks for "success", as the record handler does
StillMessageBySuccess(i, message) ==
    /\ Open(i, "still")
    /\ nEvents < MaxEvents /\ Steps < MaxSteps
    /\ nEvents' = nEvents + 1
    /\ IF ~message.success
       THEN /\ status' = StatusSnapshotFailed
            /\ shells' = Report(i, "SnapshotFailed")
       ELSE /\ status' = StatusSnapshotSaved
            /\ shells' = Report(i, "SnapshotSucceeded")
    /\ UNCHANGED <<now, stored, displayed, urlInput, imageSrc, isRecording,
                   buttonsDisabled, recordingTimerId, intervals, nOps, lastOp>>

\* shell.on('message') of the snapshot handler
StillMessage(i, message) ==
    /\ Open(i, "still")
    /\ nEvents < MaxEvents /\ Steps < MaxSteps
    /\ nEvents' = nEvents + 1
    /\ IF message.fail
       THEN /\ status' = StatusSnapshotFailed
            /\ shells' = Report(i, "SnapshotFailed")
       ELSE /\ status' = StatusSnapshotSaved
            /\ shells' = Report(i, "SnapshotSucceeded")
    /\ UNCHANGED <<now, stored, displayed, urlInput, imageSrc, isRecording,
                   buttonsDisabled, recordingTimerId, intervals, nOps, lastOp>>

StillError(i, error) ==
    /\ Open(i, "still")
    /\ nEvents < MaxEvents /\ Steps < MaxSteps
    /\ nEvents' = nEvents + 1
    /\ status' = IF IsDependencyError(error)
                 THEN StatusDependency("Snapshot") ELSE StatusSnapshotError
    /\ shells' = Report(i, "SnapshotError")
    /\ UNCHANGED <<now, stored, displayed, urlInput, imageSrc, isRecording,
                   buttonsDisabled, recordingTimerId, intervals, nOps, lastOp>>

RecordMessage(i, message) ==
    /\ Open(i, "record")
    /\ nEvents < MaxEvents /\ Steps < MaxSteps
    /\ nEvents' = nEvents + 1
    /\ IF message.success
       THEN /\ StopRecordingCountdown
            /\ SetRecordingUiState(FALSE)
            /\ status' = StatusRecordingComplete
            /\ shells' = [Report(i, "Succeeded") EXCEPT ![i].recordingFinished = TRUE]
       ELSE /\ status' = StatusMessage
            /\ UNCHANGED <<isRecording, buttonsDisabled, recordingTimerId, intervals,
                           shells>>
    /\ UNCHANGED <<now, stored, displayed, urlInput, imageSrc, nOps, lastOp>>

RecordError(i, error) ==
    /\ Open(i, "record")
    /\ nEvents < MaxEvents /\ Steps < MaxSteps
    /\ nEvents' = nEvents + 1
    /\ StopRecordingCountdown
    /\ SetRecordingUiState(FALSE)
    /\ status' = IF IsDependencyError(error)
                 THEN StatusDependency("Recording") ELSE StatusRecordingError
    /\ shells' = [Report(i, "Failed") EXCEPT ![i].recordingFinished = TRUE]
    /\ UNCHANGED <<now, stored, displayed, urlInput, imageSrc, nOps, lastOp>>

\* mutant: the end callback does not look at recordingFinished
RecordEndUnlatched(i, hasError, error, code) ==
    /\ Open(i, "record")
    /\ StopRecordingCountdown
    /\ SetRecordingUiState(FALSE)
    /\ status' = IF hasError
                 THEN IF IsDependencyError(error)
                      THEN StatusDependency("Recording")
                      ELSE StatusRecordingError
                 ELSE IF code = 0
                      THEN StatusRecordingComplete
                      ELSE StatusExitCode(code)
    /\ shells' = [Report(i, IF ~hasError /\ code = 0
                            THEN "Succeeded" ELSE "Failed")
                     EXCEPT ![i].closed = TRUE]
    /\ UNCHANGED <<now, stored, displayed, urlInput, imageSrc, nOps, nEvents, lastOp>>

\* mutant: the process closes and nothing is reported
RecordEndSilent(i, hasError, error, code) ==
    /\ Open(i, "record")
    /\ shells' = [shells EXCEPT ![i].closed = TRUE]
    /\ UNCHANGED <<now, stored, displayed, urlInput, imageSrc, status, isRecording,
                   buttonsDisabled, recordingTimerId, intervals, nOps, nEvents, lastOp>>

\* the callback given to shell.end, run once when the process has closed:
\* hasError says whether its first argument is set, error is that argument
\* and code the second
RecordEnd(i, hasError, error, code) ==
    /\ Open(i, "record")
    /\ IF shells[i].recordingFinished
       THEN /\ shells' = [shells EXCEPT ![i].closed = TRUE]
            /\ UNCHANGED <<status, isRecording, buttonsDisabled, recordingTimerId,
                           intervals>>
       ELSE /\ StopRecordingCountdown
            /\ SetRecordingUiState(FALSE)
            /\ status' = IF hasError
                         THEN IF IsDependencyError(error)
                              THEN StatusDependency("Recording")
                              ELSE StatusRecordingError
                         ELSE IF code = 0
                              THEN StatusRecordingComplete
                              ELSE StatusExitCode(code)
            /\ shells' = [Report(i, IF ~hasError /\ code = 0
                                    THEN "Succeeded" ELSE "Failed")
                             EXCEPT ![i].closed = TRUE]
    /\ UNCHANGED <<now, stored, displayed, urlInput, imageSrc, nOps, nEvents, lastOp>>

\* renderTick fired by an interval that is still running
TimerTick ==
    /\ \E iv \in intervals : status' = StatusCountdown(RemainingSeconds(iv.endAt, now))
    /\ UNCHANGED <<now, stored, displayed, urlInput, imageSrc, isRecording,
                   buttonsDisabled, recordingTimerId, intervals, shells, nOps,
                   nEvents, lastOp>>

\* the clock advances
Tick ==
    /\ now < StartClock + MaxTicks * ClockStep /\ Steps < MaxSteps
    /\ now' = now + ClockStep
    /\ UNCHANGED <<stored, displayed, urlInput, imageSrc, status, isRecording,
                   buttonsDisabled, recordingTimerId, intervals, shells, nOps,
                   nEvents, lastOp>>

\* ------------------------------------------------- what localStorage may hold
Min(a, b) == IF a <= b THEN a ELSE b

StoredAbsent == [kind |-> "absent", items |-> <<>>]
StoredUnparseable == [kind |-> "unparseable", items |-> <<>>]
StoredNonArray == [kind |-> "nonarray", items |-> <<>>]

\* an array item that is null or whose url is no string
NonEntry == [strUrl |-> FALSE, url |-> <<>>, lastUsedAt |-> NO_TIMESTAMP, pinned |-> FALSE]

\* a short array: an entry, a pinned entry with a padded url and no timestamp,
\* a non-entry, an entry whose url is blank and a second entry for the first url
StoredSmall ==
    StoredArray(<<StoredItem(Url(1), StartClock - 1, FALSE),
                  StoredItem(<<WS, 2, WS>>, NO_TIMESTAMP, TRUE),
                  NonEntry,
                  StoredItem(<<WS>>, StartClock - 2, FALSE),
                  StoredItem(<<1, WS>>, StartClock - 3, FALSE)>>)

\* n entries, most recently used first, the least recently used one pinned;
\* the last `ties` entries share the oldest timestamp
StoredList(n, ties) ==
    StoredArray([k \in 1..n |->
        StoredItem(Url(k), StartClock - Min(k, n + 1 - ties), k = n)])

\* a full array whose entries carry no usable lastUsedAt
StoredUnstamped ==
    StoredArray([k \in 1..MAX_SAVED_URLS |-> StoredItem(Url(k), NO_TIMESTAMP, FALSE)])

SmallStores == {StoredSmall}

FullStores ==
    {StoredList(MAX_SAVED_URLS, 1), StoredList(MAX_SAVED_URLS, 3),
     StoredList(MAX_SAVED_URLS - 1, 1), StoredList(MAX_SAVED_URLS + 1, 1),
     StoredUnstamped, StoredAbsent, StoredNonArray, StoredUnparseable}

\* urls no stored array holds
FreshUrls == {Url(MAX_SAVED_URLS + 1 + k) : k \in 1..ExtraUrls}

\* what the user may have typed into urlInput
TypedSmall == {<<WS>>, <<WS, 1, WS>>}

TypedFull ==
    {Url(MAX_SAVED_URLS), <<WS, MAX_SAVED_URLS + 2, WS>>} \cup FreshUrls

\* clipDurationSelect.value, as Number() reads it
SelectValues ==
    {[isNaN |-> TRUE, n |-> 0]} \cup {[isNaN |-> FALSE, n |-> k] : k \in {-1, 0}}

Messages == [success : BOOLEAN, fail : BOOLEAN]

ErrorMessages == [noModuleNamed : BOOLEAN, cv2 : BOOLEAN]

NoError == [noModuleNamed |-> FALSE, cv2 |-> FALSE]

ExitCodes == {0, 1}

\* the rows a user clicks: the first, the second and the last
RowChoices == {1, 2, Len(displayed)}

\* ------------------------------------------------------------ specification
\* the state once the script has run: renderSavedUrls(loadSavedUrls())
InitWith(stores) ==
    /\ now = StartClock
    /\ stored \in stores
    /\ displayed = loadSavedUrls(stored, now)
    /\ status = IF LoadFails(stored) THEN StatusCacheInvalid ELSE StatusNone
    /\ urlInput = <<>>
    /\ imageSrc = <<>>
    /\ isRecording = FALSE
    /\ buttonsDisabled = FALSE
    /\ recordingTimerId = NO_TIMER
    /\ intervals = {}
    /\ shells = <<>>
    /\ nOps = 0
    /\ nEvents = 0
    /\ lastOp = NoOp

Init == InitWith(SmallStores)

Next ==
    \/ \E raw \in TypedSmall : PreviewClick(raw)
    \/ \E i \in RowChoices : SavedRowClick(i)
    \/ \E raw \in TypedSmall : SnapshotClick(raw)
    \/ \E raw \in TypedSmall, value \in SelectValues : RecordClick(raw, value)
    \/ \E i \in 1..Len(shells), message \in Messages : StillMessage(i, message)
    \/ \E i \in 1..Len(shells), error \in ErrorMessages : StillError(i, error)
    \/ \E i \in 1..Len(shells), message \in Messages : RecordMessage(i, message)
    \/ \E i \in 1..Len(shells), error \in ErrorMessages : RecordError(i, error)
    \/ \E i \in 1..Len(shells), code \in ExitCodes : RecordEnd(i, FALSE, NoError, code)
    \/ \E i \in 1..Len(shells), error \in ErrorMessages, code \in ExitCodes :
            RecordEnd(i, TRUE, error, code)
    \/ TimerTick
    \/ Tick

Spec == Init /\ [][Next]_vars

\* every capture process closes in the end, and python-shell then runs the
\* callback given to shell.end
FairSpec ==
    /\ Spec
    /\ \A i \in 1..MaxOps :
           WF_vars(\E hasError \in BOOLEAN, error \in ErrorMessages, code \in ExitCodes :
                      RecordEnd(i, hasError, error, code))

\* the library from arrays at the cap, the capture processes staying silent
InitLib == InitWith(FullStores)

NextLib ==
    \/ \E raw \in TypedFull : PreviewClick(raw)
    \/ \E i \in RowChoices : SavedRowClick(i)
    \/ \E raw \in TypedFull : SnapshotClick(raw)
    \/ \E raw \in TypedFull : RecordClick(raw, NoValue)
    \/ TimerTick
    \/ Tick

SpecLib == InitLib /\ [][NextLib]_vars

\* ------------------------------------------------------------------ claims
\* this step runs the click handler `name`
Clicked(name) == nOps' = nOps + 1 /\ lastOp'.name = name

\* this step runs a click handler that went on to markUrlAsUsed
Touched == nOps' = nOps + 1 /\ lastOp'.outcome = "accepted"

RecordShells == {i \in 1..Len(shells) : shells[i].kind = "record"}

\* C1: whatever callbacks a recording's capture process delivers, and in
\* whatever order and number, the caller is told at most once that the
\* recording ended (Succeeded or Failed).
C1_AtMostOneTerminal ==
    \A i \in RecordShells : Len(shells[i].outcomes) <= 1

\* C2: a touch never leaves more than MAX_SAVED_URLS entries persisted or
\* displayed: a step that ends above the cap is no touch and has left the
\* collection as it was loaded at startup.
C2_TouchKeepsCap ==
    [][(Len(displayed') > MAX_SAVED_URLS \/ Len(stored'.items) > MAX_SAVED_URLS)
          => (~Touched /\ UNCHANGED <<stored, displayed>>)]_vars

\* a touch of a new url has just run on a collection at or above the cap
C2_Witness ==
    /\ lastOp.outcome = "accepted"
    /\ ~lastOp.wasSaved
    /\ lastOp.sizeBefore >= MAX_SAVED_URLS
    /\ Len(displayed) = MAX_SAVED_URLS
    /\ Len(stored.items) = MAX_SAVED_URLS

\* C3: a record click while isRecording is rejected with the "already in
\* progress" status and changes nothing else: no process is launched, the
\* countdown is not restarted and the saved urls are not touched.
C3_RecordWhileRecordingRejected ==
    [][(Clicked("record") /\ isRecording)
          => /\ status' = StatusAlreadyRecording
             /\ lastOp'.outcome = "AlreadyRecording"
             /\ UNCHANGED <<now, stored, displayed, imageSrc, isRecording,
                            buttonsDisabled, recordingTimerId, intervals, shells>>]_vars

\* a record click has just been rejected while a recording was running
C3_Witness ==
    /\ lastOp.name = "record"
    /\ lastOp.outcome = "AlreadyRecording"
    /\ lastOp.url # <<>>
    /\ isRecording
    /\ recordingTimerId # NO_TIMER
    /\ \E i \in RecordShells : ~shells[i].closed /\ shells[i].outcomes = <<>>

Idle ==
    /\ ~isRecording
    /\ ~buttonsDisabled
    /\ recordingTimerId = NO_TIMER
    /\ intervals = {}

\* C4: once its capture process has closed, every accepted recording has
\* been reported as ended, and the controller is back to idle: isRecording
\* false, the buttons enabled and no countdown armed.  No process closes
\* without a report.
C4_RecordingEnds ==
    /\ \A i \in 1..MaxOps :
           (i \in RecordShells) ~> (i \in RecordShells /\ shells[i].outcomes # <<>>)
    /\ isRecording ~> Idle
    /\ [](\A i \in RecordShells : shells[i].closed => shells[i].outcomes # <<>>)

\* a recording whose process closed with no success line and no error event:
\* the end callback alone reported it, and the controller is idle
C4_Witness ==
    /\ Idle
    /\ nEvents = 0
    /\ \E i \in RecordShells :
           shells[i].closed /\ Len(shells[i].outcomes) = 1

\* C5: a snapshot click (on a url that is not blank) while isRecording fails
\* with AlreadyRecording and leaves the recording alone: no still-capture
\* process is launched and isRecording and the countdown are as before.
C5_SnapshotWhileRecordingRejected ==
    [][(Clicked("snapshot") /\ isRecording /\ lastOp'.url # <<>>)
          => /\ lastOp'.outcome = "AlreadyRecording"
             /\ UNCHANGED <<isRecording, recordingTimerId, intervals, shells>>]_vars

\* C6: a record click whose duration is zero or negative fails with
\* InvalidDuration: no recording starts, no countdown is armed and no capture
\* process is launched.
C6_NonPositiveDurationRejected ==
    [][(/\ Clicked("record")
        /\ ~lastOp'.value.isNaN
        /\ lastOp'.value.n <= 0
        /\ ~isRecording
        /\ lastOp'.url # <<>>)
          => /\ lastOp'.outcome = "InvalidDuration"
             /\ UNCHANGED <<isRecording, recordingTimerId, intervals, shells>>]_vars

\* this step runs the preview, snapshot or record handler on a url that is
\* empty or all whitespace
BlankRequest ==
    /\ Clicked("preview") \/ Clicked("snapshot") \/ Clicked("record")
    /\ \A k \in 1..Len(urlInput') : urlInput'[k] = WS

NothingButStatusChanges ==
    UNCHANGED <<now, stored, displayed, imageSrc, isRecording, buttonsDisabled,
                recordingTimerId, intervals, shells, nEvents>>

\* C7 as claimed: every preview, snapshot or record click on a blank url is
\* answered with the "enter a stream URL" error and changes nothing else.
C7_BlankUrlAlwaysInvalidUrl ==
    [][BlankRequest
          => /\ status' = StatusEnterUrl
             /\ lastOp'.outcome = "InvalidUrl"
             /\ NothingButStatusChanges]_vars

\* C7 as amended: a preview, snapshot or record click on a blank url changes
\* nothing but the status; the status is the "enter a stream URL" error,
\* except for a record click while isRecording, which is answered with the
\* "already in progress" error before the url is read.
C7_BlankUrlRejected ==
    [][BlankRequest
          => /\ NothingButStatusChanges
             /\ IF Clicked("record") /\ isRecording
                THEN status' = StatusAlreadyRecording
                     /\ lastOp'.outcome = "AlreadyRecording"
                ELSE status' = StatusEnterUrl
                     /\ lastOp'.outcome = "InvalidUrl"]_vars

\* a snapshot click on a whitespace-only url has just been rejected, with
\* saved urls on display
C7_Witness ==
    /\ lastOp.name = "snapshot"
    /\ lastOp.outcome = "InvalidUrl"
    /\ urlInput = <<WS>>
    /\ status = StatusEnterUrl
    /\ displayed # <<>>
    /\ shells = <<>>

\* the collection a touch in this step loads
Loaded == loadSavedUrls(stored, now)

UrlsOf(savedUrls) == {savedUrls[k].url : k \in 1..Len(savedUrls)}

\* the entries of `before` that are no longer in displayed'
Evicted(before) ==
    {j \in 1..Len(before) :
        \A k \in 1..Len(displayed') : displayed'[k] # before[j]}

\* C8: a touch with a new url on a collection of MAX_SAVED_URLS entries
\* evicts exactly one of them, one whose lastUsedAt is the smallest, and the
\* new url is in the collection afterwards, ties in lastUsedAt included.
C8_NewUrlEvictsOldest ==
    [][(Touched /\ ~lastOp'.wasSaved /\ Len(Loaded) = MAX_SAVED_URLS)
          => /\ lastOp'.url \in UrlsOf(displayed')
             /\ Cardinality(Evicted(Loaded)) = 1
             /\ \A j \in Evicted(Loaded), i \in 1..Len(Loaded) :
                    Loaded[j].lastUsedAt <= Loaded[i].lastUsedAt]_vars

\* the entries of `before` other than the first one for url are all in
\* displayed', which is as long as `before`, holds the same urls, and holds
\* url with lastUsedAt = now
OnlyBumps(before, url) ==
    /\ Len(displayed') = Len(before)
    /\ UrlsOf(displayed') = UrlsOf(before)
    /\ \E k \in 1..Len(displayed') : displayed'[k] = Entry(url, now)
    /\ \A j \in 1..Len(before) :
           j # FindIndex(before, url)
               => \E k \in 1..Len(displayed') : displayed'[k] = before[j]

\* C9 as claimed: a touch of a url the collection holds sets that entry's
\* lastUsedAt to now and changes nothing else.
C9_TouchExistingOnlyBumps ==
    [][(Touched /\ lastOp'.wasSaved) => OnlyBumps(displayed, lastOp'.url)]_vars

\* every persisted entry carries a lastUsedAt
AllStamped ==
    \A k \in 1..Len(stored.items) :
        stored.items[k].strUrl => stored.items[k].lastUsedAt # NO_TIMESTAMP

\* C9 as amended: when the persisted collection holds at most MAX_SAVED_URLS
\* entries and each carries a lastUsedAt, a touch of a url it holds sets the
\* lastUsedAt of the (first) entry for that url to now and changes nothing
\* else: same size, same urls, every other entry as it was.
C9_TouchExistingOnlyBumpsStamped ==
    [][(Touched /\ lastOp'.wasSaved /\ AllStamped /\ Len(Loaded) <= MAX_SAVED_URLS)
          => /\ displayed = Loaded
             /\ OnlyBumps(displayed, lastOp'.url)
             /\ stored' = persistSavedUrls(displayed')]_vars

\* the last row of a full, stamped collection has just been touched after
\* the clock advanced: it is now first and the others kept their lastUsedAt
C9_Witness ==
    /\ lastOp.name = "row"
    /\ lastOp.wasSaved
    /\ lastOp.sizeBefore = MAX_SAVED_URLS
    /\ lastOp.url = Url(MAX_SAVED_URLS)
    /\ Len(displayed) = MAX_SAVED_URLS
    /\ displayed[1] = Entry(Url(MAX_SAVED_URLS), now)
    /\ displayed[2] = Entry(Url(1), StartClock - 1)
    /\ nOps = 1

\* C10: pruning never removes a pinned entry, and a pinned entry is still
\* pinned after the collection has been loaded and persisted again.
C10_PinnedEntriesStay ==
    [][\A k \in 1..Len(stored.items) :
          (stored.items[k].strUrl /\ stored.items[k].pinned /\ stored.kind = "array")
              => \E j \in 1..Len(stored'.items) :
                     /\ stored'.items[j].url = Trim(stored.items[k].url)
                     /\ stored'.items[j].pinned]_vars

\* the urls of the persisted items flagged pinned, as loadSavedUrls reads them
PinnedUrls ==
    {Trim(stored.items[k].url) :
        k \in {n \in 1..Len(stored.items) :
                  stored.items[n].strUrl /\ stored.items[n].pinned}}

\* row j may stand above row k: a pinned row above an unpinned one, and two
\* unpinned rows by lastUsedAt descending
RowsInOrder(j, k) ==
    \/ displayed[j].url \in PinnedUrls
    \/ /\ displayed[k].url \notin PinnedUrls
       /\ displayed[j].lastUsedAt >= displayed[k].lastUsedAt

\* C11: in every state the rows on display are ordered pinned entries first,
\* then the other entries by lastUsedAt descending; this covers the list
\* rendered at startup from localStorage.
C11_ListOrdered ==
    \A j \in 1..Len(displayed), k \in 1..Len(displayed) : j < k => RowsInOrder(j, k)

\* the entries a persisted value holds, as {url, lastUsedAt}
EntriesOf(raw) ==
    [i \in 1..Len(raw.items) |-> Entry(raw.items[i].url, raw.items[i].lastUsedAt)]

NoTwoAlike(savedUrls) ==
    \A j \in 1..Len(savedUrls), k \in 1..Len(savedUrls) :
        j # k => Trim(savedUrls[j].url) # Trim(savedUrls[k].url)

\* C12: in every state no two entries of the collection, as displayed and as
\* persisted and loaded again, have the same trimmed url.
C12_UrlsUnique ==
    /\ NoTwoAlike(displayed)
    /\ NoTwoAlike(Loaded)

\* C13 as claimed: in every state the rows on display are, entry for entry
\* and in order, the collection localStorage holds.
C13_DisplayedIsPersisted == EntriesOf(stored) = displayed

\* C13 as amended: when a touch returns, the rows on display are, entry for
\* entry and in order, the array it has just written to localStorage, and
\* from then on the two stay equal; only the list rendered at startup, the
\* normalised load of what localStorage held, can differ from it.
C13_TouchShowsWhatItPersists ==
    [][/\ Touched => (stored'.kind = "array" /\ EntriesOf(stored') = displayed')
       /\ EntriesOf(stored) = displayed => EntriesOf(stored') = displayed']_vars

\* a preview has just touched a url of a collection whose startup list
\* differed from localStorage; what is displayed is now what is persisted
C13_Witness ==
    /\ lastOp.name = "preview"
    /\ lastOp.outcome = "accepted"
    /\ lastOp.wasSaved
    /\ nOps = 1
    /\ Len(displayed) > 1
    /\ EntriesOf(stored) = displayed
    /\ \E k \in 1..Len(displayed) : displayed[k].lastUsedAt = now

\* localStorage holds text that is no JSON, or JSON that is no array
Malformed == stored.kind \in {"unparseable", "nonarray"}

\* C14: once the script has run on malformed localStorage, and until the
\* first click, the collection on display is empty and the status box holds
\* the "cache is invalid" warning.
C14_MalformedLoadWarns ==
    (Malformed /\ nOps = 0) => (displayed = <<>> /\ status = StatusCacheInvalid)

\* this step reports `outcome` for the recording of shell i
Reports(i, outcome) == shells'[i].outcomes = Append(shells[i].outcomes, outcome)

ReportsNothing(i) == shells'[i].outcomes = shells[i].outcomes

FailedWithMessage ==
    status' \in {StatusRecordingError, StatusDependency("Recording")}

\* what the message and error callbacks of shell i report
EventsClassified(i) ==
    /\ \A message \in Messages :
           RecordMessage(i, message)
               => IF message.success
                  THEN Reports(i, "Succeeded") /\ status' = StatusRecordingComplete
                  ELSE ReportsNothing(i)
    /\ \A error \in ErrorMessages :
           RecordError(i, error) => (Reports(i, "Failed") /\ FailedWithMessage)

\* what the end callback of shell i reports when `unreported` held before it
EndClassified(i, unreported) ==
    /\ \A error \in ErrorMessages, code \in ExitCodes :
           (RecordEnd(i, TRUE, error, code) /\ unreported)
               => (Reports(i, "Failed") /\ FailedWithMessage)
    /\ \A code \in ExitCodes :
           (RecordEnd(i, FALSE, NoError, code) /\ unreported)
               => IF code = 0
                  THEN Reports(i, "Succeeded") /\ status' = StatusRecordingComplete
                  ELSE Reports(i, "Failed") /\ status' = StatusExitCode(code)

NoSuccessBefore(i) ==
    \A k \in 1..Len(shells[i].outcomes) : shells[i].outcomes[k] # "Succeeded"

\* C16 as claimed: a success message gives Succeeded; an error event gives
\* Failed with a message, and so does every end callback carrying an error;
\* an end callback with no error and no earlier success message gives Failed
\* with the exit code when the code is not zero, and Succeeded when it is.
C16_OutcomeClassifiedAsClaimed ==
    [][\A i \in RecordShells :
          /\ EventsClassified(i)
          /\ \A error \in ErrorMessages, code \in ExitCodes :
                 RecordEnd(i, TRUE, error, code)
                     => (Reports(i, "Failed") /\ FailedWithMessage)
          /\ EndClassified(i, NoSuccessBefore(i))]_vars

\* C16 as amended: a success message gives Succeeded and an error event gives
\* Failed with a message; the end callback classifies only a recording for
\* which neither has arrived: Failed with a message when it carries an error,
\* else Failed with the exit code when the code is not zero and Succeeded
\* when it is zero.  After a success message or an error event the end
\* callback reports nothing, whatever it carries.
C16_OutcomeClassified ==
    [][\A i \in RecordShells :
          /\ EventsClassified(i)
          /\ EndClassified(i, ~shells[i].recordingFinished)
          /\ \A hasError \in BOOLEAN, error \in ErrorMessages, code \in ExitCodes :
                 (RecordEnd(i, hasError, error, code) /\ shells[i].recordingFinished)
                     => (ReportsNothing(i) /\ UNCHANGED status)]_vars

\* a recording whose process printed a line without "success" and then
\* closed with exit code 1: Failed, with the code in the status
C16_Witness ==
    /\ nEvents = 1
    /\ status = StatusExitCode(1)
    /\ \E i \in RecordShells :
           /\ shells[i].closed
           /\ ~shells[i].recordingFinished
           /\ shells[i].outcomes = <<"Failed">>

\* this step runs a callback of the capture process of shell i
CallbackOf(i) ==
    \/ \E message \in Messages : RecordMessage(i, message)
    \/ \E error \in ErrorMessages : RecordError(i, error)
    \/ \E hasError \in BOOLEAN, error \in ErrorMessages, code \in ExitCodes :
           RecordEnd(i, hasError, error, code)

\* C17: a callback of a capture process whose recording has latched its end
\* leaves a recording started since then alone: isRecording stays true, the
\* countdown stays armed and nothing is reported for the later recording.
C17_EarlierProcessLeavesLaterSession ==
    [][\A i \in RecordShells, j \in RecordShells :
          (/\ i < j
           /\ shells[i].recordingFinished
           /\ isRecording
           /\ ~shells[j].closed
           /\ shells[j].outcomes = <<>>
           /\ CallbackOf(i))
              => /\ UNCHANGED <<isRecording, buttonsDisabled, recordingTimerId, intervals>>
                 /\ shells'[j] = shells[j]]_vars

StillShells == {i \in 1..Len(shells) : shells[i].kind = "still"}

\* C18 as claimed: once a message of a snapshot's process held a failure
\* indicator, the outcome reported last for that snapshot is never
\* SnapshotSucceeded, whatever messages follow.
C18_FailureIsFinal ==
    \A i \in StillShells :
        (\E k \in 1..Len(shells[i].outcomes) : shells[i].outcomes[k] = "SnapshotFailed")
            => shells[i].outcomes[Len(shells[i].outcomes)] # "SnapshotSucceeded"

\* C18 as amended: every message of a snapshot's process is classified by
\* itself, SnapshotFailed when it holds a failure indicator and
\* SnapshotSucceeded when it does not, and the status box shows the outcome
\* of the last message received.
C18_EachMessageClassified ==
    [][\A i \in StillShells, message \in Messages :
          StillMessage(i, message)
              => IF message.fail
                 THEN Reports(i, "SnapshotFailed") /\ status' = StatusSnapshotFailed
                 ELSE Reports(i, "SnapshotSucceeded") /\ status' = StatusSnapshotSaved]_vars

\* a snapshot whose process sent a message with a failure indicator and then
\* one without: the status box says the snapshot was saved
C18_Witness ==
    /\ status = StatusSnapshotSaved
    /\ \E i \in StillShells :
           shells[i].outcomes = <<"SnapshotFailed", "SnapshotSucceeded">>

\* C19: between handlers the countdown is armed exactly when a recording is
\* active: recordingTimerId is set iff isRecording, the armed handle is that
\* of the one interval running, and no interval runs (so no countdown tick can
\* overwrite the status) when no recording is active.
C19_TimerArmedIffRecording ==
    /\ (recordingTimerId # NO_TIMER) <=> isRecording
    /\ Cardinality(intervals) <= 1
    /\ \A iv \in intervals : iv.id = recordingTimerId
    /\ isRecording <=> (intervals # {})

\* a second recording is running after the first was reported: one interval,
\* armed for the second
C19_Witness ==
    /\ isRecording
    /\ recordingTimerId = 2
    /\ Cardinality(intervals) = 1
    /\ shells[1].kind = "record"
    /\ shells[1].outcomes # <<>>
    /\ shells[2].outcomes = <<>>

\* this step renders a countdown tick: the one startRecordingCountdown runs
\* itself or one fired by the interval
EmitsRemaining ==
    \/ Clicked("record") /\ lastOp'.outcome = "accepted"
    \/ TimerTick /\ status'.type = "recording"

\* C20: every remaining-time value the countdown of a recording of d seconds
\* shows is an integer in 0..d, is no larger than the one shown before it for
\* that recording, and is 0 once the end time has passed; showing 0 ends no
\* recording and reports nothing.
C20_CountdownInRange ==
    [][EmitsRemaining
          => \E iv \in intervals' :
                 /\ status'.n \in 0..shells'[iv.id].duration
                 /\ (now >= iv.endAt) => (status'.n = 0)
                 /\ (status.type = "recording" /\ iv \in intervals)
                        => status'.n <= status.n
                 /\ TimerTick => UNCHANGED <<isRecording, recordingTimerId, shells>>]_vars

====
